---- MODULE Spec2Model ----
(***************************************************************************)
(* FGP Calendar daemon (src/src/main.rs): the CalendarService dispatch     *)
(* layer, its per-call Python helper process, and the daemon lifecycle.    *)
(***************************************************************************)
EXTENDS Integers, Sequences, FiniteSets, TLC

VARIABLES
    files,      \* paths at which a calendar-cli.py currently exists (file system)
    python,     \* state of the python3 interpreter on the host
    phase,      \* where main() is: before new(), constructed, serving, exited
    cli_path,   \* CalendarService.cli_path
    startError, \* the error main() returned with, "" while none
    health,     \* the map returned by the last health_check()
    healthAt,   \* the backend state at the time of that health_check()
    calls       \* the dispatch calls, one record per transport thread

vars == <<files, python, phase, cli_path, startError, health, healthAt, calls>>

----------------------------------------------------------------------------
(* Bounds *)

\* number of transport threads that can be inside dispatch
MaxCalls == 2

Threads == 1..MaxCalls

----------------------------------------------------------------------------
(* serde_json::Value *)

Null == [t |-> "null"]
Num(n) == [t |-> "int", n |-> n]
NumF64(tenths) == [t |-> "float", tenths |-> tenths]
Str(s) == [t |-> "str", s |-> s]
Arr(items) == [t |-> "array", items |-> items]
Obj(fields) == [t |-> "object", fields |-> fields]

\* Option<T> is a set with at most one element
Some(x) == {x}
None == {}
unwrap(opt) == CHOOSE x \in opt : TRUE
unwrap_or(opt, d) == IF opt = None THEN d ELSE unwrap(opt)
and_then(opt, F(_)) == UNION {F(x) : x \in opt}

\* Value::as_u64: only a non-negative integer number
as_u64(v) == IF v.t = "int" /\ v.n >= 0 THEN Some(v.n) ELSE None

\* Value::as_str: only a string
as_str(v) == IF v.t = "str" THEN Some(v.s) ELSE None

\* Value::get(key): a member of an object
value_get(v, key) ==
    IF v.t = "object" /\ key \in DOMAIN v.fields THEN Some(v.fields[key]) ELSE None

\* HashMap::get
params_get(params, key) == IF key \in DOMAIN params THEN Some(params[key]) ELSE None

Digit == <<"0", "1", "2", "3", "4", "5", "6", "7", "8", "9">>

\* u64::to_string: the decimal digits
RECURSIVE to_string(_)
to_string(n) ==
    IF n < 10 THEN Digit[n + 1] ELSE to_string(n \div 10) \o Digit[(n % 10) + 1]

\* serde_json::from_slice on the helper's standard output
ParseJson(text) ==
    CASE text = "[{\"summary\":\"standup\"}]" ->
            Some(Arr(<<Obj([summary |-> Str("standup")])>>))
      [] text = "{\"error\":\"rate limited\"}" ->
            Some(Obj([error |-> Str("rate limited")]))
      [] text = "{\"error\":429}" ->
            Some(Obj([error |-> Num(429)]))
      [] OTHER -> None

\* String::from_utf8_lossy: bytes are a sequence of segments, each valid
\* UTF-8 text or an invalid byte sequence, which becomes U+FFFD
RECURSIVE from_utf8_lossy(_)
from_utf8_lossy(bytes) ==
    IF bytes = <<>> THEN ""
    ELSE (IF Head(bytes).valid THEN Head(bytes).text ELSE "\\u{FFFD}")
         \o from_utf8_lossy(Tail(bytes))

Utf8(text) == <<[valid |-> TRUE, text |-> text]>>
BadBytes(text) == <<[valid |-> FALSE, text |-> text]>>

----------------------------------------------------------------------------
(* Result<Value> *)

NoResult == [tag |-> "none", value |-> Null, msg |-> ""]
Ok(v) == [tag |-> "ok", value |-> v, msg |-> ""]
Err(m) == [tag |-> "err", value |-> Null, msg |-> m]

\* what a handler does: fails before the helper, or calls run_cli(args)
Bail(m) == [tag |-> "err", msg |-> m, args |-> <<>>]
RunCli(args) == [tag |-> "run", msg |-> "", args |-> args]

----------------------------------------------------------------------------
(* method_list *)

method_list == <<
    [name |-> "calendar.today", params |-> <<>>],
    [name |-> "calendar.upcoming", params |-> <<
        [name |-> "days", param_type |-> "integer", required |-> FALSE,
         default |-> Some(Num(7))],
        [name |-> "limit", param_type |-> "integer", required |-> FALSE,
         default |-> Some(Num(20))]>>],
    [name |-> "calendar.search", params |-> <<
        [name |-> "query", param_type |-> "string", required |-> TRUE,
         default |-> None],
        [name |-> "days", param_type |-> "integer", required |-> FALSE,
         default |-> Some(Num(30))]>>],
    [name |-> "calendar.create", params |-> <<
        [name |-> "summary", param_type |-> "string", required |-> TRUE,
         default |-> None],
        [name |-> "start", param_type |-> "string", required |-> TRUE,
         default |-> None],
        [name |-> "end", param_type |-> "string", required |-> TRUE,
         default |-> None],
        [name |-> "description", param_type |-> "string", required |-> FALSE,
         default |-> None]>>],
    [name |-> "calendar.free_slots", params |-> <<
        [name |-> "duration_minutes", param_type |-> "integer", required |-> TRUE,
         default |-> None],
        [name |-> "days", param_type |-> "integer", required |-> FALSE,
         default |-> Some(Num(7))]>>] >>

----------------------------------------------------------------------------
(* The handlers *)

today == RunCli(<<"today">>)

upcoming_days14(params) ==
    LET days == unwrap_or(and_then(params_get(params, "days"), as_u64), 14)
        limit == unwrap_or(and_then(params_get(params, "limit"), as_u64), 20)
    IN  RunCli(<<"upcoming", "--days", to_string(days), "--limit", to_string(limit)>>)

upcoming_swapped(params) ==
    LET days == unwrap_or(and_then(params_get(params, "days"), as_u64), 7)
        limit == unwrap_or(and_then(params_get(params, "limit"), as_u64), 20)
    IN  RunCli(<<"upcoming", "--limit", to_string(limit), "--days", to_string(days)>>)

upcoming(params) ==
    LET days == unwrap_or(and_then(params_get(params, "days"), as_u64), 7)
        limit == unwrap_or(and_then(params_get(params, "limit"), as_u64), 20)
    IN  RunCli(<<"upcoming", "--days", to_string(days), "--limit", to_string(limit)>>)

search(params) ==
    LET query == and_then(params_get(params, "query"), as_str)
        days == unwrap_or(and_then(params_get(params, "days"), as_u64), 30)
    IN  IF query = None THEN Bail("query parameter is required")
        ELSE RunCli(<<"search", unwrap(query), "--days", to_string(days)>>)

create_unchecked_start(params) ==
    LET summary == and_then(params_get(params, "summary"), as_str)
        start == and_then(params_get(params, "start"), as_str)
        end == and_then(params_get(params, "end"), as_str)
        desc == and_then(params_get(params, "description"), as_str)
        args == <<"create", unwrap_or(summary, ""), unwrap_or(start, ""),
                  unwrap_or(end, "")>>
    IN  IF summary = None THEN Bail("summary parameter is required")
        ELSE IF end = None THEN Bail("end parameter is required")
        ELSE IF desc # None THEN RunCli(args \o <<"--description", unwrap(desc)>>)
        ELSE RunCli(args)

create(params) ==
    LET summary == and_then(params_get(params, "summary"), as_str)
        start == and_then(params_get(params, "start"), as_str)
        end == and_then(params_get(params, "end"), as_str)
        desc == and_then(params_get(params, "description"), as_str)
    IN  IF summary = None THEN Bail("summary parameter is required")
        ELSE IF start = None THEN Bail("start parameter is required")
        ELSE IF end = None THEN Bail("end parameter is required")
        ELSE LET args == <<"create", unwrap(summary), unwrap(start), unwrap(end)>>
             IN  IF desc # None
                 THEN RunCli(args \o <<"--description", unwrap(desc)>>)
                 ELSE RunCli(args)

free_slots(params) ==
    LET duration == and_then(params_get(params, "duration_minutes"), as_u64)
        days == unwrap_or(and_then(params_get(params, "days"), as_u64), 7)
    IN  IF duration = None THEN Bail("duration_minutes parameter is required")
        ELSE RunCli(<<"free-slots", "--duration", to_string(unwrap(duration)),
                      "--days", to_string(days)>>)

dispatch_fallthrough(method, params) ==
    CASE method = "calendar.upcoming" -> upcoming(params)
      [] method = "calendar.search" -> search(params)
      [] method = "calendar.create" -> create(params)
      [] method = "calendar.free_slots" -> free_slots(params)
      [] OTHER -> today

dispatch(method, params) ==
    CASE method = "calendar.today" -> today
      [] method = "calendar.upcoming" -> upcoming(params)
      [] method = "calendar.search" -> search(params)
      [] method = "calendar.create" -> create(params)
      [] method = "calendar.free_slots" -> free_slots(params)
      [] OTHER -> Bail("Unknown method: " \o method)

----------------------------------------------------------------------------
(* run_cli, after the helper has exited *)

run_cli_stderr_only(output) ==
    IF output.code # 0
    THEN Err("calendar-cli failed: " \o from_utf8_lossy(output.stderr))
    ELSE LET parsed == ParseJson(output.stdout)
         IN  IF parsed # None THEN Ok(unwrap(parsed))
             ELSE Err("Failed to parse calendar-cli output")

run_cli_lenient(output) ==
    LET parsed == ParseJson(output.stdout)
    IN  IF parsed # None THEN Ok(unwrap(parsed))
        ELSE IF output.code # 0
        THEN Err("calendar-cli failed: " \o from_utf8_lossy(output.stderr))
        ELSE Ok(Null)

run_cli(output) ==
    IF output.code # 0
    THEN LET stderr == from_utf8_lossy(output.stderr)
             error_json == ParseJson(output.stdout)
             error == and_then(and_then(error_json, LAMBDA v : value_get(v, "error")),
                               as_str)
         IN  IF error # None THEN Err("Calendar API error: " \o unwrap(error))
             ELSE Err("calendar-cli failed: " \o stderr)
    ELSE LET parsed == ParseJson(output.stdout)
         IN  IF parsed # None THEN Ok(unwrap(parsed))
             ELSE Err("Failed to parse calendar-cli output")

----------------------------------------------------------------------------
(* calendar_cli_path and construction *)

ExeDirScript == "<exe_dir>/calendar-cli.py"
ExeDirScriptsScript == "<exe_dir>/scripts/calendar-cli.py"
HomeScript == "<home>/.fgp/services/calendar/calendar-cli.py"
ManifestScript == "<CARGO_MANIFEST_DIR>/scripts/calendar-cli.py"

NoPath == ""

\* the first location at which the script exists, else the cargo project
calendar_cli_path(fs) ==
    IF ExeDirScript \in fs THEN ExeDirScript
    ELSE IF ExeDirScriptsScript \in fs THEN ExeDirScriptsScript
    ELSE IF HomeScript \in fs THEN HomeScript
    ELSE ManifestScript

\* CalendarService::new: Ok(path) or Err(message)
new(fs) ==
    LET path == calendar_cli_path(fs)
    IN  IF path \notin fs
        THEN Err("Calendar CLI not found at: " \o path
                 \o "\nEnsure calendar-cli.py is installed.")
        ELSE Ok(Str(path))

\* on_start, given how `python3 --version` went
on_start(py) ==
    IF py = "missing" THEN Err("Python3 not found")
    ELSE IF py = "broken" THEN Err("Python3 not available")
    ELSE Ok(Null)

health_check(path, fs) ==
    [k \in {"calendar_cli"} |->
        IF path \in fs
        THEN [ok |-> TRUE, latency_ms |-> None, message |-> Some("CLI at " \o path)]
        ELSE [ok |-> FALSE, latency_ms |-> None,
              message |-> Some("calendar-cli.py not found")]]

----------------------------------------------------------------------------
(* Inputs *)

\* the locations at which the environment installs or removes the script
Installable == {HomeScript, ManifestScript}

PythonStates == {"ok", "missing", "broken"}

IntegerInputs == {Num(7), Num(20), Num(30), Num(-1), NumF64(15), Str("7")}
StringInputs == {Str("standup"), Num(7)}

InputsFor(spec) == IF spec.param_type = "integer" THEN IntegerInputs ELSE StringInputs

EmptyParams == [k \in {} |-> Null]

\* every mapping of some of the declared parameters to an input value
ParamMaps(specs) ==
    LET idx == DOMAIN specs
        name(S) == {specs[i].name : i \in S}
        spec(k) == specs[CHOOSE i \in idx : specs[i].name = k]
    IN  UNION {{f \in [name(S) -> IntegerInputs \cup StringInputs] :
                    \A k \in name(S) : f[k] \in InputsFor(spec(k))} :
               S \in SUBSET idx}

Registered == {method_list[i].name : i \in DOMAIN method_list}
Unregistered == {"upcoming", "calendar.delete"}
Methods == Registered \cup Unregistered

Descriptor(method) == method_list[CHOOSE i \in DOMAIN method_list :
                                      method_list[i].name = method]

ParamsOf(method) ==
    IF method \in Registered THEN ParamMaps(Descriptor(method).params)
    ELSE {EmptyParams, [k \in {"days"} |-> Num(7)]}

Requests == UNION {{<<m, p>> : p \in ParamsOf(m)} : m \in Methods}

StdoutTexts == {"[{\"summary\":\"standup\"}]", "{\"error\":\"rate limited\"}",
                "{\"error\":429}", "Traceback (most recent call last):"}
StderrBytes == {Utf8("quota exceeded"), Utf8("fatal: ") \o BadBytes("\\xff")}
ExitCodes == {0, 1}

Exited(code, stdout, stderr) ==
    [tag |-> "exited", code |-> code, stdout |-> stdout, stderr |-> stderr]
NoOutput == [tag |-> "none", code |-> 0, stdout |-> "", stderr |-> <<>>]
SpawnFailed == [tag |-> "spawn_failed", code |-> 0, stdout |-> "", stderr |-> <<>>]

Outputs == {Exited(c, o, e) : c \in ExitCodes, o \in StdoutTexts, e \in StderrBytes}

\* the requests and helper outcomes of the concurrent runs
ConcurrentRequests ==
    {<<"calendar.today", EmptyParams>>,
     <<"calendar.upcoming", [k \in {"days"} |-> Num(7)]>>,
     <<"calendar.search", EmptyParams>>}
ConcurrentOutputs ==
    {Exited(0, "[{\"summary\":\"standup\"}]", Utf8("quota exceeded")),
     Exited(1, "{\"error\":\"rate limited\"}", Utf8("quota exceeded"))}

----------------------------------------------------------------------------
(* State machine *)

Idle == [pc |-> "idle", method |-> "", params |-> EmptyParams, invoked |-> 0,
         spawned |-> 0, argv |-> <<>>, output |-> NoOutput, result |-> NoResult]

NoHealth == [k \in {} |-> Null]
NoProbe == [script |-> TRUE, interpreter |-> TRUE]

Init ==
    /\ files \in SUBSET Installable
    /\ python \in PythonStates
    /\ phase = "Uninitialized"
    /\ cli_path = NoPath
    /\ startError = ""
    /\ health = NoHealth
    /\ healthAt = NoProbe
    /\ calls = [c \in Threads |-> Idle]

\* the environment installs, removes the script, or changes the interpreter
CreateFile(p) ==
    /\ p \notin files
    /\ files' = files \cup {p}
    /\ UNCHANGED <<python, phase, cli_path, startError, health, healthAt, calls>>

RemoveFile(p) ==
    /\ p \in files
    /\ files' = files \ {p}
    /\ UNCHANGED <<python, phase, cli_path, startError, health, healthAt, calls>>

SetPython(s) ==
    /\ s # python
    /\ python' = s
    /\ UNCHANGED <<files, phase, cli_path, startError, health, healthAt, calls>>

\* main: CalendarService::new()?
New ==
    /\ phase = "Uninitialized"
    /\ LET r == new(files)
       IN  IF r.tag = "ok"
           THEN /\ cli_path' = r.value.s
                /\ phase' = "Constructed"
                /\ startError' = startError
           ELSE /\ cli_path' = cli_path
                /\ phase' = "Exited"
                /\ startError' = r.msg
    /\ UNCHANGED <<files, python, health, healthAt, calls>>

\* server.serve()?: on_start once, before any call is served
OnStart ==
    /\ phase = "Constructed"
    /\ LET r == on_start(python)
       IN  IF r.tag = "ok"
           THEN phase' = "Serving" /\ startError' = startError
           ELSE phase' = "Exited" /\ startError' = r.msg
    /\ UNCHANGED <<files, python, cli_path, health, healthAt, calls>>

HealthCheck ==
    /\ phase \in {"Constructed", "Serving"}
    /\ health' = health_check(cli_path, files)
    /\ healthAt' = [script |-> cli_path \in files, interpreter |-> python = "ok"]
    /\ UNCHANGED <<files, python, phase, cli_path, startError, calls>>

\* dispatch up to the point where run_cli waits for the helper
Dispatch(c, method, params) ==
    /\ phase = "Serving"
    /\ calls[c].pc = "idle"
    /\ LET plan == dispatch(method, params)
           call == [Idle EXCEPT !.method = method, !.params = params]
       IN  calls' = [calls EXCEPT ![c] =
              IF plan.tag = "err"
              THEN [call EXCEPT !.pc = "done", !.result = Err(plan.msg)]
              ELSE IF python = "missing"
              THEN [call EXCEPT !.pc = "done", !.invoked = 1, !.argv = plan.args,
                                !.output = SpawnFailed,
                                !.result = Err("Failed to run calendar-cli.py")]
              ELSE [call EXCEPT !.pc = "running", !.invoked = 1, !.spawned = 1,
                                !.argv = plan.args]]
    /\ UNCHANGED <<files, python, phase, cli_path, startError, health, healthAt>>

Exit_shared(c, output) ==
    /\ calls[c].pc = "running"
    /\ calls' = [d \in Threads |->
                    IF calls[d].pc = "running"
                    THEN [calls[d] EXCEPT !.pc = "done", !.output = output,
                                          !.result = run_cli(output)]
                    ELSE calls[d]]
    /\ UNCHANGED <<files, python, phase, cli_path, startError, health, healthAt>>

\* the helper of call c exits; run_cli turns its output into the result
Exit(c, output) ==
    /\ calls[c].pc = "running"
    /\ calls' = [calls EXCEPT ![c] = [@ EXCEPT !.pc = "done", !.output = output,
                                               !.result = run_cli(output)]]
    /\ UNCHANGED <<files, python, phase, cli_path, startError, health, healthAt>>

\* the transport has sent the response; the thread takes the next request
Return(c) ==
    /\ calls[c].pc = "done"
    /\ calls' = [calls EXCEPT ![c] = Idle]
    /\ UNCHANGED <<files, python, phase, cli_path, startError, health, healthAt>>

Environment ==
    \/ \E p \in Installable : CreateFile(p)
    \/ \E p \in Installable : RemoveFile(p)
    \/ \E s \in PythonStates : SetPython(s)

Lifecycle == New \/ OnStart \/ HealthCheck

\* a single-threaded transport: one call fully completes before the next
\* begins, all of them on thread 1
Next ==
    \/ Environment
    \/ Lifecycle
    \/ \E r \in Requests : Dispatch(1, r[1], r[2])
    \/ \E o \in Outputs : Exit(1, o)
    \/ Return(1)

Spec == Init /\ [][Next]_vars

\* a multi-threaded transport: one thread blocks per call
NextConcurrent ==
    \/ Environment
    \/ Lifecycle
    \/ \E c \in Threads, r \in ConcurrentRequests : Dispatch(c, r[1], r[2])
    \/ \E c \in Threads, o \in ConcurrentOutputs : Exit(c, o)
    \/ \E c \in Threads : Return(c)

SpecConcurrent == Init /\ [][NextConcurrent]_vars

----------------------------------------------------------------------------
(* Vocabulary of the properties *)

Active(c) == calls[c].pc # "idle"

ParamSpecs(c) == Descriptor(calls[c].method).params

\* a value of the declared type: a string, a non-negative whole number
OfDeclaredType(v, param_type) ==
    IF param_type = "string" THEN v.t = "str" ELSE v.t = "int" /\ v.n >= 0

Absent(c, spec) == spec.name \notin DOMAIN calls[c].params

Unusable(c, spec) ==
    Absent(c, spec) \/ ~OfDeclaredType(calls[c].params[spec.name], spec.param_type)

MissingRequired(c) ==
    {ParamSpecs(c)[i].name : i \in {j \in DOMAIN ParamSpecs(c) :
        ParamSpecs(c)[j].required /\ Absent(c, ParamSpecs(c)[j])}}

NotInvoked(c) == calls[c].pc = "done" /\ calls[c].invoked = 0 /\ calls[c].spawned = 0

With(params, k, v) == [x \in DOMAIN params \cup {k} |-> IF x = k THEN v ELSE params[x]]

HelperExited(c) == calls[c].pc = "done" /\ calls[c].output.tag = "exited"

\* the bytes of standard error taken as they are
RECURSIVE RawText(_)
RawText(bytes) ==
    IF bytes = <<>> THEN "" ELSE Head(bytes).text \o RawText(Tail(bytes))

----------------------------------------------------------------------------
(* C1: a call of a method that is not registered ends with the error       *)
(* "Unknown method: <name>", whatever its parameters, and run_cli is not   *)
(* invoked and no helper process is spawned during the call.               *)
C1_UnknownMethodNotFound ==
    \A c \in Threads :
        (Active(c) /\ calls[c].method \notin Registered) =>
            /\ NotInvoked(c)
            /\ calls[c].result = Err("Unknown method: " \o calls[c].method)

C1_Witness ==
    \E c \in Threads :
        /\ calls[c].pc = "done"
        /\ calls[c].method = "calendar.delete"
        /\ calls[c].params # EmptyParams
        /\ calls[c].result.tag = "err"

(* C2 as stated: when a required parameter of a registered method is       *)
(* absent, the call fails with a message naming a parameter that is        *)
(* missing, and the helper is never run.                                   *)
C2_MissingParameterNamed ==
    \A c \in Threads :
        (Active(c) /\ calls[c].method \in Registered /\ MissingRequired(c) # {}) =>
            /\ NotInvoked(c)
            /\ \E k \in MissingRequired(c) :
                   calls[c].result = Err(k \o " parameter is required")

(* C2 as amended: when a required parameter of a registered method is      *)
(* absent, the call fails before the helper is run, and the message names  *)
(* the first required parameter, in declaration order, that is absent or   *)
(* not a value of its declared type.                                       *)
C2_FirstUnusableRequiredNamed ==
    \A c \in Threads :
        (Active(c) /\ calls[c].method \in Registered /\ MissingRequired(c) # {}) =>
            /\ NotInvoked(c)
            /\ \E i \in DOMAIN ParamSpecs(c) :
                /\ ParamSpecs(c)[i].required /\ Unusable(c, ParamSpecs(c)[i])
                /\ \A j \in 1..(i - 1) :
                       ParamSpecs(c)[j].required => ~Unusable(c, ParamSpecs(c)[j])
                /\ calls[c].result =
                       Err(ParamSpecs(c)[i].name \o " parameter is required")

C2_Witness ==
    \E c \in Threads :
        /\ calls[c].pc = "done"
        /\ calls[c].method = "calendar.create"
        /\ "summary" \in DOMAIN calls[c].params
        /\ calls[c].params["summary"].t # "str"
        /\ "start" \notin DOMAIN calls[c].params
        /\ calls[c].result = Err("summary parameter is required")

(* C3: when a declared parameter of a registered method is present but is  *)
(* not a value of its declared type, the call fails with an error and the  *)
(* helper is never run: the value is not replaced by the default.          *)
C3_UncoercibleRejected ==
    \A c \in Threads :
        (/\ Active(c)
         /\ calls[c].method \in Registered
         /\ \E i \in DOMAIN ParamSpecs(c) :
                /\ ~Absent(c, ParamSpecs(c)[i])
                /\ Unusable(c, ParamSpecs(c)[i])) =>
            /\ NotInvoked(c)
            /\ calls[c].result.tag = "err"

(* C4: a call that omits an optional parameter with a declared default     *)
(* hands run_cli the same arguments, or fails with the same error, as the  *)
(* call that supplies the declared default explicitly.                     *)
C4_DefaultSameAsExplicit ==
    \A c \in Threads :
        (Active(c) /\ calls[c].method \in Registered) =>
            \A i \in DOMAIN ParamSpecs(c) :
                (ParamSpecs(c)[i].default # None /\ Absent(c, ParamSpecs(c)[i])) =>
                    LET explicit == dispatch(calls[c].method,
                                             With(calls[c].params, ParamSpecs(c)[i].name,
                                                  unwrap(ParamSpecs(c)[i].default)))
                    IN  IF explicit.tag = "err"
                        THEN NotInvoked(c) /\ calls[c].result = Err(explicit.msg)
                        ELSE calls[c].invoked = 1 /\ calls[c].argv = explicit.args

C4_Witness ==
    \E c \in Threads :
        /\ calls[c].method = "calendar.search"
        /\ "days" \notin DOMAIN calls[c].params
        /\ calls[c].spawned = 1
        /\ calls[c].argv = <<"search", "standup", "--days", "30">>

(* C5 as stated: dispatch("upcoming", {"days": 7}) invokes run_cli exactly *)
(* once, with ["upcoming", "--days", "7", "--limit", "20"].                *)
C5_BareUpcoming ==
    \A c \in Threads :
        (/\ Active(c)
         /\ calls[c].method = "upcoming"
         /\ calls[c].params = [k \in {"days"} |-> Num(7)]) =>
            /\ calls[c].invoked = 1
            /\ calls[c].argv = <<"upcoming", "--days", "7", "--limit", "20">>

(* C5 as amended: dispatch("calendar.upcoming", {"days": 7}) invokes       *)
(* run_cli exactly once, with ["upcoming", "--days", "7", "--limit", "20"] *)
(* in that order, and spawns at most one helper process.                   *)
C5_QualifiedUpcoming ==
    \A c \in Threads :
        (/\ Active(c)
         /\ calls[c].method = "calendar.upcoming"
         /\ calls[c].params = [k \in {"days"} |-> Num(7)]) =>
            /\ calls[c].invoked = 1
            /\ calls[c].spawned <= 1
            /\ calls[c].argv = <<"upcoming", "--days", "7", "--limit", "20">>

C5_Witness ==
    \E c \in Threads :
        /\ calls[c].method = "calendar.upcoming"
        /\ calls[c].params = [k \in {"days"} |-> Num(7)]
        /\ calls[c].spawned = 1
        /\ calls[c].pc = "running"

(* C6 as stated: after a non-zero exit the error message is exactly the    *)
(* `error` field of the JSON on standard output when there is one, and     *)
(* otherwise exactly the standard error text.                              *)
C6_DiagnosticExact ==
    \A c \in Threads :
        (HelperExited(c) /\ calls[c].output.code # 0) =>
            LET json == ParseJson(calls[c].output.stdout)
                field == and_then(json, LAMBDA v : value_get(v, "error"))
            IN  /\ calls[c].result.tag = "err"
                /\ IF field # None
                   THEN Str(calls[c].result.msg) = unwrap(field)
                   ELSE calls[c].result.msg = RawText(calls[c].output.stderr)

(* C6 as amended: after a non-zero exit the error message is               *)
(* "Calendar API error: " followed by the `error` field of the JSON on     *)
(* standard output when that field is a string, and otherwise              *)
(* "calendar-cli failed: " followed by the standard error text decoded as  *)
(* UTF-8 with invalid bytes replaced by U+FFFD.                            *)
C6_DiagnosticPrefixed ==
    \A c \in Threads :
        (HelperExited(c) /\ calls[c].output.code # 0) =>
            LET json == ParseJson(calls[c].output.stdout)
                field == and_then(json, LAMBDA v : value_get(v, "error"))
            IN  /\ calls[c].result.tag = "err"
                /\ IF field # None /\ unwrap_or(field, Null).t = "str"
                   THEN calls[c].result.msg =
                            "Calendar API error: " \o unwrap(field).s
                   ELSE calls[c].result.msg =
                            "calendar-cli failed: "
                                \o from_utf8_lossy(calls[c].output.stderr)

C6_Witness ==
    \E c \in Threads :
        /\ HelperExited(c)
        /\ calls[c].output.code = 1
        /\ calls[c].output.stdout = "{\"error\":\"rate limited\"}"
        /\ calls[c].result = Err("Calendar API error: rate limited")

(* C7 as stated: after a zero exit the result is the JSON value parsed     *)
(* from standard output, or the error "malformed backend output" when it   *)
(* does not parse; a non-zero exit never gives a success.                  *)
C7_MalformedBackendOutput ==
    \A c \in Threads :
        HelperExited(c) =>
            LET json == ParseJson(calls[c].output.stdout)
            IN  IF calls[c].output.code = 0
                THEN IF json # None
                     THEN calls[c].result = Ok(unwrap(json))
                     ELSE calls[c].result = Err("malformed backend output")
                ELSE calls[c].result.tag = "err"

(* C7 as amended: after a zero exit the result is the JSON value parsed    *)
(* from standard output, or the error "Failed to parse calendar-cli        *)
(* output" when it does not parse; a non-zero exit never gives a success.  *)
C7_FailedToParseOutput ==
    \A c \in Threads :
        HelperExited(c) =>
            LET json == ParseJson(calls[c].output.stdout)
            IN  IF calls[c].output.code = 0
                THEN IF json # None
                     THEN calls[c].result = Ok(unwrap(json))
                     ELSE calls[c].result = Err("Failed to parse calendar-cli output")
                ELSE calls[c].result.tag = "err"

C7_Witness ==
    \E c \in Threads :
        /\ HelperExited(c)
        /\ calls[c].output.code = 0
        /\ ParseJson(calls[c].output.stdout) = None
        /\ calls[c].result.tag = "err"

(* C8: a health_check made while the backend is unreachable, the script    *)
(* missing or the interpreter not invocable, returns a status with         *)
(* ok = false and a non-empty message.                                     *)
C8_UnreachableReported ==
    (health # NoHealth /\ (~healthAt.script \/ ~healthAt.interpreter)) =>
        /\ DOMAIN health = {"calendar_cli"}
        /\ ~health["calendar_cli"].ok
        /\ health["calendar_cli"].message \notin {None, Some("")}

(* C9: the service starts serving only through an on_start made while the  *)
(* backend is usable: the interpreter runs and the helper script exists.   *)
C9_ServingOnlyWithUsableBackend ==
    [][(phase # "Serving" /\ phase' = "Serving") =>
          (phase = "Constructed" /\ python = "ok" /\ cli_path \in files)]_vars

\* the result a call has when it runs alone
Alone(method, params, output) ==
    LET plan == dispatch(method, params)
    IN  IF plan.tag = "err" THEN Err(plan.msg)
        ELSE IF output.tag = "spawn_failed" THEN Err("Failed to run calendar-cli.py")
        ELSE run_cli(output)

(* C10: concurrent calls are independent: no step changes the resolved     *)
(* helper path once set, a step of one call leaves every other call as it  *)
(* was, each helper process gets the arguments of its own call, and each   *)
(* finished call has the result it would have had alone with the same      *)
(* method, parameters and helper outcome.                                  *)
C10_CallsIndependent ==
    [][/\ cli_path # NoPath => cli_path' = cli_path
       /\ \A c, d \in Threads :
              (c # d /\ calls'[c] # calls[c]) => calls'[d] = calls[d]
       /\ \A c \in Threads :
              /\ calls'[c].spawned = 1 =>
                     calls'[c].argv = dispatch(calls'[c].method, calls'[c].params).args
              /\ calls'[c].pc = "done" =>
                     calls'[c].result =
                         Alone(calls'[c].method, calls'[c].params, calls'[c].output)]_vars

C10_Witness ==
    \E c, d \in Threads :
        /\ calls[c].pc = "done" /\ calls[c].spawned = 1
        /\ calls[c].result.tag = "ok"
        /\ calls[d].pc = "running"
        /\ calls[d].argv # calls[c].argv

====
